---------------------------- MODULE Spec2Model ----------------------------
(***************************************************************************)
(* Model of the integration pipeline of brazyl:                            *)
(*   - the rate-limited retrying clients CamaraAPI, SenadoAPI and          *)
(*     TransparenciaAPI (_request and the public methods built on it);     *)
(*   - the cache decorator of redis_client.py in front of them.            *)
(*                                                                         *)
(* The client part follows ONE observed call of _request step by step (its *)
(* attempts, backoff waits, upstream requests and result) while any number *)
(* of other calls run on the same client objects.  The other calls only    *)
(* matter through the permits they hold, so they are counted per client    *)
(* (load) instead of being followed one by one.                            *)
(***************************************************************************)
EXTENDS Integers, Sequences, FiniteSets, TLC

(***************************************************************************)
(* Bounds of the model                                                     *)
(***************************************************************************)
\* client objects that may be constructed (each has its own semaphore)
MaxClients == 2
MaxCallers == 2
MaxTicks == 2
MaxNotifs == 2
MaxTasks == 2
MaxClock == 1
MaxExtra == 2

(***************************************************************************)
(* Program constants                                                       *)
(***************************************************************************)
CamaraPermits == 10
SenadoPermits == 10
TransparenciaPermits == 5
CamaraBackoffBase == 2
SenadoBackoffBase == 2
TransparenciaBackoffBase == 3
\* default of the parameter retry of _request; no caller passes another value
DefaultRetry == 3

Hosts == {"camara", "senado", "transparencia"}

ClientIds == 1..MaxClients

(***************************************************************************)
(* JSON values, as far as the code looks at them: null, an object, or a    *)
(* list of items.                                                          *)
(***************************************************************************)
JNull == [t |-> "null", v |-> <<>>]
JObj(n) == [t |-> "obj", v |-> <<n>>]
JArr(s) == [t |-> "arr", v |-> s]

\* bodies an upstream may answer with on a 200
Bodies == {JObj(1), JArr(<<>>)}

\* what one HTTP GET can end in: a status with a body, or a connection
\* error / timeout (httpx.RequestError)
Responses ==
    {[status |-> "200", body |-> b] : b \in Bodies}
    \cup {[status |-> s, body |-> JNull] : s \in {"404", "500", "conn"}}

\* asyncio.Semaphore(n) of each client class
Permits(h) ==
    CASE h = "camara" -> CamaraPermits
      [] h = "senado" -> SenadoPermits
      [] h = "transparencia" -> TransparenciaPermits

BackoffBase(h) ==
    CASE h = "camara" -> CamaraBackoffBase
      [] h = "senado" -> SenadoBackoffBase
      [] h = "transparencia" -> TransparenciaBackoffBase

RECURSIVE Pow(_, _)
Pow(b, e) == IF e = 0 THEN 1 ELSE b * Pow(b, e - 1)

\* faulty variant, for comparison: a linear backoff
BackoffLinear(h, attempt) == BackoffBase(h) * attempt

\* asyncio.sleep(2 ** attempt) / asyncio.sleep(3 ** attempt)
Backoff(h, attempt) == Pow(BackoffBase(h), attempt)

\* public methods that reach _request
Methods(h) ==
    CASE h = "camara" ->
           {"get_deputados", "get_deputado", "get_votacoes",
            "get_voto_deputado", "get_despesas"}
      [] h = "senado" ->
           {"get_senadores", "get_senador", "get_votacoes", "get_voto_senador"}
      [] h = "transparencia" -> {"buscar_servidor_por_cpf"}
      [] OTHER -> {}


(***************************************************************************)
(* State                                                                   *)
(***************************************************************************)
VARIABLES
    host,   \* host[i]: the class of client object i, "none" before construction
    sem,    \* sem[i]: free permits of the semaphore (_semaphore) of client i
    load,   \* load[i]: other calls of client i that are inside `async with`
    call,   \* the observed call of _request
    pub,    \* one invocation of a public method of a client
    available, \* RedisClient.is_available: the Redis connection object exists
    store,  \* the keys held by Redis: key -> serialized value and expiry
    now,    \* the clock, in seconds
    ticks,  \* how many times the clock has been advanced
    callers, \* the calls of cached (decorated) methods
    keyed,  \* two calls of one cached method and the cache keys they get
    rows,   \* the table `notifications`: rows[n] is the row of notification n
    clock,  \* datetime.utcnow(), in ticks
    tasks,  \* the running calls of create_notification and
            \* process_pending_notifications
    norm    \* one call of normalize_deputado or normalize_senador

clientVars == <<host, sem, load, call>>
cacheVars == <<available, store, now, ticks, callers>>
\* what the steps of the clients, of the public methods and of the cache
\* leave alone
notifyVars == <<rows, clock, tasks>>
notClient == <<pub, available, store, now, ticks, callers, keyed, notifyVars,
               norm>>
notPublic == <<host, sem, load, call, available, store, now, ticks, callers,
               keyed, notifyVars, norm>>
notCache == <<host, sem, load, call, pub, keyed, notifyVars, norm>>
notKey == <<host, sem, load, call, pub, available, store, now, ticks, callers,
            notifyVars, norm>>
notNotify == <<host, sem, load, call, pub, available, store, now, ticks,
               callers, keyed, norm>>
notNorm == <<host, sem, load, call, pub, available, store, now, ticks,
             callers, keyed, notifyVars>>

NoError == [msg |-> "", status |-> ""]

\* the observed call before it is issued
IdleCall ==
    [st |-> "idle", client |-> 0,
     attempt |-> 0, hist |-> <<>>, waits |-> <<>>, reqs |-> 0,
     body |-> JNull, res |-> "none", val |-> JNull, err |-> NoError]

InitClient ==
    /\ host = [i \in ClientIds |-> "none"]
    /\ sem = [i \in ClientIds |-> 0]
    /\ load = [i \in ClientIds |-> 0]
    /\ call = IdleCall

Constructed == {i \in ClientIds : host[i] # "none"}

\* the observed call is inside `async with self._semaphore` of client i
Holds(i) == call.client = i /\ call.st \in {"attempt", "sleep"}

RECURSIVE SumLoad(_)
SumLoad(S) ==
    IF S = {} THEN 0
    ELSE LET i == CHOOSE x \in S : TRUE IN load[i] + SumLoad(S \ {i})

\* calls to host h that are executing (hold a permit of some client of h)
Running(h) ==
    SumLoad({i \in ClientIds : host[i] = h})
    + (IF call.client \in ClientIds /\ host[call.client] = h /\ Holds(call.client)
       THEN 1 ELSE 0)

(***************************************************************************)
(* Construction: CamaraAPI(), SenadoAPI(), TransparenciaAPI().  Every      *)
(* construction makes a new semaphore.  PoliticianService.__init__ builds  *)
(* a CamaraAPI and a SenadoAPI, and the routes build a PoliticianService   *)
(* per HTTP request; within one behaviour the clients are of one host,     *)
(* since clients of different hosts share no state.                        *)
(***************************************************************************)
NewClient(i, h) ==
    /\ host[i] = "none"
    /\ \A j \in ClientIds : j < i => host[j] = h
    /\ host' = [host EXCEPT ![i] = h]
    /\ sem' = [sem EXCEPT ![i] = Permits(h)]
    /\ UNCHANGED <<load, call>>
    /\ UNCHANGED notClient

(***************************************************************************)
(* asyncio.Semaphore, as `async with` uses it                              *)
(***************************************************************************)
\* acquire() returns only while a permit is free
CanAcquire(i) == sem[i] > 0
AcquirePermit(i) == [sem EXCEPT ![i] = @ - 1]
\* __aexit__: release()
ReleasePermit(i) == [sem EXCEPT ![i] = @ + 1]

(***************************************************************************)
(* The other calls of client i: they enter `async with`, run their retry   *)
(* loop and leave it.  As many of them as the host has permits are issued  *)
(* at a time, so that the observed call is one call more.                  *)
(***************************************************************************)
LoadStart(i) ==
    /\ i \in Constructed
    /\ SumLoad(ClientIds) < Permits(host[i])
    /\ CanAcquire(i)
    /\ sem' = AcquirePermit(i)
    /\ load' = [load EXCEPT ![i] = @ + 1]
    /\ UNCHANGED <<host, call>>
    /\ UNCHANGED notClient

LoadFinish(i) ==
    /\ load[i] > 0
    /\ sem' = ReleasePermit(i)
    /\ load' = [load EXCEPT ![i] = @ - 1]
    /\ UNCHANGED <<host, call>>
    /\ UNCHANGED notClient

(***************************************************************************)
(* _request, one attempt                                                   *)
(***************************************************************************)
\* What one attempt can end in: the response of its last GET and the number
\* of GETs issued.  SenadoAPI._request issues a second GET (with the Accept
\* header) when the first one succeeded, and the attempt ends in the
\* response of the second.
AttemptOutcomes(h) ==
    IF h = "senado"
    THEN {[resp |-> r, gets |-> 1] : r \in {x \in Responses : x.status # "200"}}
         \cup {[resp |-> r, gets |-> 2] : r \in Responses}
    ELSE {[resp |-> r, gets |-> 1] : r \in Responses}

\* faulty variant, for comparison: TransparenciaAPI returning the body as it is
SuccessResultRaw(h, body) == [res |-> "ok", val |-> body, err |-> NoError]

\* `return data`; TransparenciaAPI: `data if isinstance(data, list) else [data]`
SuccessResult(h, body) ==
    [res |-> "ok",
     val |-> IF h = "transparencia" /\ body.t # "arr" THEN JArr(body.v) ELSE body,
     err |-> NoError]

\* faulty variant, for comparison: every client answering a 404 with the empty list
NotFoundResultEmpty(h) == [res |-> "ok", val |-> JArr(<<>>), err |-> NoError]

\* status 404: CamaraAPI and SenadoAPI raise, TransparenciaAPI returns []
NotFoundResult(h) ==
    IF h = "transparencia"
    THEN [res |-> "ok", val |-> JArr(<<>>), err |-> NoError]
    ELSE [res |-> "error", val |-> JNull,
          err |-> [msg |-> "Recurso nao encontrado", status |-> "404"]]

\* the last attempt failed: raise with the last error
ExhaustedResult(status) ==
    [res |-> "error", val |-> JNull,
     err |-> [msg |-> IF status = "conn" THEN "Erro de conexao" ELSE "Erro HTTP",
              status |-> status]]

\* faulty variant, for comparison: the loop giving up one attempt early
AttemptsRemainShort(attempt) == attempt < DefaultRetry - 2

\* `if attempt < retry - 1`
AttemptsRemain(attempt) == attempt < DefaultRetry - 1

\* raise_for_status() passes
IsSuccess(status) == status = "200"

\* `if e.response.status_code == 404`
IsNotFound(status) == status = "404"

\* faulty variant, for comparison: a 404 retried like any other error status
IsTransientAny(status) == status # "200"

\* every other HTTPStatusError, and every RequestError, is retried
IsTransient(status) == status \in {"500", "conn"}


(***************************************************************************)
(* The observed call                                                       *)
(***************************************************************************)
\* _request of client i is called and reaches `async with self._semaphore`
Request(i) ==
    /\ call.st = "idle"
    /\ i \in Constructed
    /\ call' = [call EXCEPT !.st = "acquire", !.client = i]
    /\ UNCHANGED <<host, sem, load>>
    /\ UNCHANGED notClient

\* the permit is taken; the loop starts with attempt = 0
Acquire ==
    /\ call.st = "acquire"
    /\ CanAcquire(call.client)
    /\ sem' = AcquirePermit(call.client)
    /\ call' = [call EXCEPT !.st = "attempt", !.attempt = 0]
    /\ UNCHANGED <<host, load>>
    /\ UNCHANGED notClient

\* the call leaves `async with` with result r (returned or raised)
Conclude(c, r) ==
    [c EXCEPT !.st = "done", !.res = r.res, !.val = r.val, !.err = r.err]

\* the host of the client the observed call was made on
CallHost == IF call.client \in ClientIds THEN host[call.client] ELSE "none"

\* the bookkeeping of one attempt: its final status and its GETs
Attempted(c, o) ==
    [c EXCEPT !.hist = Append(@, o.resp.status), !.reqs = @ + o.gets,
              !.body = o.resp.body]

\* 2xx: `return data`
AttemptSucceeds(o) ==
    /\ call.st = "attempt"
    /\ IsSuccess(o.resp.status)
    /\ call' = Conclude(Attempted(call, o),
                        SuccessResult(CallHost, o.resp.body))
    /\ sem' = ReleasePermit(call.client)
    /\ UNCHANGED <<host, load>>
    /\ UNCHANGED notClient

\* faulty variant, for comparison: the 404 exit leaving without releasing the permit
AttemptNotFoundKeepsPermit(o) ==
    /\ call.st = "attempt"
    /\ IsNotFound(o.resp.status)
    /\ call' = Conclude(Attempted(call, o), NotFoundResult(CallHost))
    /\ UNCHANGED <<host, sem, load>>
    /\ UNCHANGED notClient

\* HTTPStatusError with status 404
AttemptNotFound(o) ==
    /\ call.st = "attempt"
    /\ IsNotFound(o.resp.status)
    /\ call' = Conclude(Attempted(call, o), NotFoundResult(CallHost))
    /\ sem' = ReleasePermit(call.client)
    /\ UNCHANGED <<host, load>>
    /\ UNCHANGED notClient

\* another HTTP error status or a RequestError, attempts left: sleep
AttemptRetries(o) ==
    /\ call.st = "attempt"
    /\ IsTransient(o.resp.status)
    /\ AttemptsRemain(call.attempt)
    /\ call' = [Attempted(call, o) EXCEPT
                  !.st = "sleep",
                  !.waits = Append(@, Backoff(CallHost, call.attempt))]
    /\ UNCHANGED <<host, sem, load>>
    /\ UNCHANGED notClient

\* another HTTP error status or a RequestError on the last attempt: raise
AttemptExhausts(o) ==
    /\ call.st = "attempt"
    /\ IsTransient(o.resp.status)
    /\ ~AttemptsRemain(call.attempt)
    /\ call' = Conclude(Attempted(call, o), ExhaustedResult(o.resp.status))
    /\ sem' = ReleasePermit(call.client)
    /\ UNCHANGED <<host, load>>
    /\ UNCHANGED notClient

\* faulty variant, for comparison: a retry loop that does not advance its attempt counter
WakeSameAttempt ==
    /\ call.st = "sleep"
    /\ call' = [call EXCEPT !.st = "attempt"]
    /\ UNCHANGED <<host, sem, load>>
    /\ UNCHANGED notClient

\* asyncio.sleep returns: next iteration of `for attempt in range(retry)`
Wake ==
    /\ call.st = "sleep"
    /\ call' = [call EXCEPT !.st = "attempt", !.attempt = @ + 1]
    /\ UNCHANGED <<host, sem, load>>
    /\ UNCHANGED notClient

NextClient ==
    \/ \E i \in ClientIds, h \in Hosts : NewClient(i, h)
    \/ \E i \in ClientIds : LoadStart(i)
    \/ \E i \in ClientIds : LoadFinish(i)
    \/ \E i \in ClientIds : Request(i)
    \/ Acquire
    \/ \E o \in AttemptOutcomes(CallHost) : AttemptSucceeds(o)
    \/ \E o \in AttemptOutcomes(CallHost) : AttemptNotFound(o)
    \/ \E o \in AttemptOutcomes(CallHost) : AttemptRetries(o)
    \/ \E o \in AttemptOutcomes(CallHost) : AttemptExhausts(o)
    \/ Wake

\* every way a call of _request on a client of host h can end
RequestResults(h) ==
    {SuccessResult(h, b) : b \in Bodies}
    \cup {NotFoundResult(h)}
    \cup {ExhaustedResult(s) : s \in {"500", "conn"}}

(***************************************************************************)
(* The public methods around _request.  The body stands for the payload    *)
(* the method reads from it (the member "dados", "Parlamentar", "Voto"):   *)
(* an object or a list of items, item 1 being the one looked up.           *)
(***************************************************************************)
\* methods whose `except ...APIError` clause logs and returns None
SwallowingMethods ==
    {"get_voto_deputado", "get_voto_senador", "buscar_servidor_por_cpf"}

\* what the public method hands to its caller when _request raised
PublicOnError(m, e) ==
    IF m \in SwallowingMethods
    THEN [out |-> "return", outVal |-> JNull, outErr |-> NoError]
    ELSE [out |-> "raise", outVal |-> JNull, outErr |-> e]

\* what the public method hands to its caller when _request returned v
PublicOnSuccess(m, v) ==
    CASE m \in {"get_voto_deputado", "get_voto_senador"} ->
           \* the vote of the parliamentarian looked up, or None
           [out |-> "return",
            outVal |-> IF \E k \in 1..Len(v.v) : v.v[k] = 1 THEN JObj(1) ELSE JNull,
            outErr |-> NoError]
      [] m = "buscar_servidor_por_cpf" ->
           \* resultado[0] if resultado else None
           [out |-> "return",
            outVal |-> IF Len(v.v) > 0 THEN JObj(v.v[1]) ELSE JNull,
            outErr |-> NoError]
      [] m \in {"get_senadores", "get_votacoes"} /\ v.t # "arr" ->
           \* SenadoAPI: a single record is wrapped into a list; for CamaraAPI
           \* get_votacoes the body is a list already
           [out |-> "return", outVal |-> JArr(v.v), outErr |-> NoError]
      [] OTHER ->
           [out |-> "return", outVal |-> v, outErr |-> NoError]

PublicResult(m, r) ==
    IF r.res = "error" THEN PublicOnError(m, r.err) ELSE PublicOnSuccess(m, r.val)


\* no public method is being followed
NoPublicCall ==
    [st |-> "none", host |-> "none", method |-> "",
     res |-> "none", val |-> JNull, err |-> NoError,
     out |-> "none", outVal |-> JNull, outErr |-> NoError]

\* a public method m of a client of host h has been called
InitPublic ==
    \E h \in Hosts : \E m \in Methods(h) :
        pub = [NoPublicCall EXCEPT !.st = "called", !.host = h, !.method = m]

\* its call of _request ends, with a value or an exception
RequestEnds(r) ==
    /\ pub.st = "called"
    /\ pub' = [pub EXCEPT !.st = "requested",
                          !.res = r.res, !.val = r.val, !.err = r.err]
    /\ UNCHANGED notPublic

\* the method's own try/except and return
PublicReturns ==
    /\ pub.st = "requested"
    /\ LET p == PublicResult(pub.method, [res |-> pub.res, val |-> pub.val,
                                          err |-> pub.err]) IN
       pub' = [pub EXCEPT !.st = "returned",
                          !.out = p.out, !.outVal = p.outVal, !.outErr = p.outErr]
    /\ UNCHANGED notPublic

NextPublic ==
    \/ \E r \in RequestResults(pub.host) : RequestEnds(r)
    \/ PublicReturns

(***************************************************************************)
(* The cache decorator over Redis.  A cached method is a public method     *)
(* wrapped by `cache(ttl, key_prefix)`; the wrapper reads the key, and on  *)
(* a miss awaits the method and writes what it returned.  Each await is a  *)
(* step, so wrappers of different callers interleave.                      *)
(***************************************************************************)
DeputadoTtl == 3600
ServidorTtl == 86400

CallerIds == 1..MaxCallers

\* the decorated methods followed here: one that lets the errors of _request
\* through and the one that turns them into None
CachedMethods ==
    {[name |-> "get_deputado", host |-> "camara",
      key_prefix |-> "camara:deputado", param |-> "deputado_id",
      ttl |-> DeputadoTtl],
     [name |-> "buscar_servidor_por_cpf", host |-> "transparencia",
      key_prefix |-> "transparencia:servidor", param |-> "cpf",
      ttl |-> ServidorTtl]}

\* `cache(ttl, key_prefix)` takes any ttl: a function decorated with ttl = 0
\* under the default prefix, beside the decorated methods of the clients
DecoratedFns ==
    CachedMethods \cup
    {[name |-> "get_politician", host |-> "camara",
      key_prefix |-> "brazyl", param |-> "politician_id", ttl |-> 0]}

\* a call of a decorated function: on which client object, and with the
\* argument given by position or by keyword
CachedCalls ==
    [fn : DecoratedFns, self : ClientIds, style : {"positional", "keyword"}]

\* *args and **kwargs as the wrapper receives them; `self` is args[0], and
\* its str() is the default repr, which names the object
ArgsOf(k) ==
    IF k.style = "positional"
    THEN <<<<"object", k.self>>, 1>>
    ELSE <<<<"object", k.self>>>>
KwargsOf(k) ==
    IF k.style = "keyword" THEN <<<<k.fn.param, 1>>>> ELSE <<>>

\* f"{key_prefix}:{func.__name__}:{str(args)}:{str(kwargs)}"
CacheKey(key_prefix, name, args, kwargs) == <<key_prefix, name, args, kwargs>>

\* the values a cached method returns
Values == {JNull, JObj(1), JArr(<<>>), JArr(<<1>>)}

\* json.dumps(value, default=str)
Serialize(v) ==
    CASE v.t = "null" -> "null"
      [] v.t = "obj" -> "{\"id\": 1}"
      [] v.t = "arr" /\ v.v = <<>> -> "[]"
      [] OTHER -> "[{\"id\": 1}]"

\* json.loads(value); JSON null becomes None
Deserialize(s) ==
    CASE s = "null" -> JNull
      [] s = "{\"id\": 1}" -> JObj(1)
      [] s = "[]" -> JArr(<<>>)
      [] OTHER -> JArr(<<1>>)

\* the clock advances by a second or by the lifetime of an entry
Delays == {1} \cup {m.ttl : m \in CachedMethods}

\* no entry read or written
NoEntry == [ser |-> "", expires |-> <<>>, orig |-> JNull, storedAt |-> 0]

\* the method has not ended
NoOutcome == [out |-> "none", outVal |-> JNull, outErr |-> NoError]

EmptyStore == [k \in {} |-> 0]

\* Redis still holds key k: SETEX keeps it for ttl seconds, SET for ever
Live(k) ==
    /\ k \in DOMAIN store
    /\ \/ store[k].expires = <<>>
       \/ now <= store[k].expires[1]

\* a call of the wrapper: its place, its locals, what it returns, and a
\* record of what happened to it (getOk .. entry)
IdleCaller ==
    [st |-> "idle", name |-> "", host |-> "none", self |-> 0,
     key |-> <<>>, ttl |-> 0,
     found |-> FALSE, foundOrig |-> JNull, invoked |-> 0, result |-> JNull,
     out |-> "none", outVal |-> JNull, outErr |-> NoError, fromCache |-> FALSE,
     getOk |-> FALSE, stale |-> FALSE, foundAge |-> 0, failed |-> FALSE, funcOut |-> NoOutcome,
     setOk |-> FALSE, setAt |-> 0, entry |-> NoEntry]

\* the cache is not in use
InitCacheIdle ==
    /\ available = TRUE
    /\ store = EmptyStore
    /\ now = 0
    /\ ticks = 0
    /\ callers = [c \in CallerIds |-> IdleCaller]

\* RedisClient.__init__ may have failed to build the connection
InitCache ==
    /\ available \in BOOLEAN
    /\ store = EmptyStore
    /\ now = 0
    /\ ticks = 0
    /\ callers = [c \in CallerIds |-> IdleCaller]

\* the client objects the callers have called so far
UsedObjects == {callers[b].self : b \in {a \in CallerIds : callers[a].st # "idle"}}

\* wrapper, up to the await of redis_client.get: the key is computed.  The
\* callers are interchangeable, and so are the client objects: both are
\* numbered in the order of their first call.
CachedCall(c, k) ==
    /\ callers[c].st = "idle"
    /\ \A b \in CallerIds : b < c => callers[b].st # "idle"
    /\ \A i \in ClientIds : i < k.self => i \in UsedObjects
    /\ callers' = [callers EXCEPT ![c] =
           [@ EXCEPT !.st = "get", !.name = k.fn.name, !.host = k.fn.host,
                     !.self = k.self,
                     !.ttl = k.fn.ttl,
                     !.key = CacheKey(k.fn.key_prefix, k.fn.name,
                                      ArgsOf(k), KwargsOf(k))]]
    /\ UNCHANGED <<available, store, now, ticks>>
    /\ UNCHANGED notCache

\* faulty variant, for comparison: a read that answers from the store even
\* when Redis is unavailable or the read raised
RedisGetIgnoringFailure(key, ok) ==
    IF Live(key) /\ store[key].ser # ""
    THEN Deserialize(store[key].ser)
    ELSE JNull

\* RedisClient.get: None when Redis is unavailable, when the read raises
\* (ok = FALSE), when the reply is empty; else the parsed reply
RedisGet(key, ok) ==
    LET reply == IF Live(key) THEN <<store[key].ser>> ELSE <<>>
    IN  IF available /\ ok /\ reply # <<>> /\ reply[1] # ""
        THEN Deserialize(reply[1])
        ELSE JNull

\* wrapper, from the reply of redis_client.get: a value that is not None is
\* returned, anything else goes on to the method
CacheGet(c, ok) ==
    /\ callers[c].st = "get"
    /\ LET key == callers[c].key
           cached_value == RedisGet(key, ok)
           held == available /\ ok /\ Live(key)
           seen == [callers[c] EXCEPT
                       !.getOk = available /\ ok,
                       !.stale = available /\ ok /\ key \in DOMAIN store
                                 /\ ~Live(key),
                       !.found = held,
                       !.foundOrig = IF held THEN store[key].orig ELSE JNull,
                       !.foundAge = IF held THEN now - store[key].storedAt
                                    ELSE 0]
       IN  callers' = [callers EXCEPT ![c] =
               IF cached_value # JNull
               THEN [seen EXCEPT !.st = "done", !.out = "return",
                                 !.outVal = cached_value, !.fromCache = TRUE]
               ELSE [seen EXCEPT !.st = "func"]]
    /\ UNCHANGED <<available, store, now, ticks>>
    /\ UNCHANGED notCache

\* wrapper, `result = await func(*args, **kwargs)`, the call of _request
\* inside the method ending as r: an error of the method leaves the wrapper,
\* a result goes on to be saved
FuncEnds(c, r) ==
    /\ callers[c].st = "func"
    /\ LET p == PublicResult(callers[c].name, r)
           ended == [callers[c] EXCEPT !.invoked = @ + 1,
                                       !.failed = (r.res = "error"),
                                       !.funcOut = p]
       IN  callers' = [callers EXCEPT ![c] =
               IF p.out = "raise"
               THEN [ended EXCEPT !.st = "done",
                                  !.out = "raise", !.outErr = p.outErr]
               ELSE [ended EXCEPT !.st = "set", !.result = p.outVal]]
    /\ UNCHANGED <<available, store, now, ticks>>
    /\ UNCHANGED notCache

\* faulty variant, for comparison: a write that keeps the entry already held
RedisSetIfAbsent(key, value, ttl, ok) ==
    IF available /\ ok /\ ~Live(key)
    THEN [k \in DOMAIN store \cup {key} |->
            IF k = key
            THEN [ser |-> Serialize(value),
                  expires |-> IF ttl # 0 THEN <<now + ttl>> ELSE <<>>,
                  orig |-> value, storedAt |-> now]
            ELSE store[k]]
    ELSE store

\* faulty variant, for comparison: every write made with SET, without expiry
RedisSetNoExpiry(key, value, ttl, ok) ==
    IF available /\ ok
    THEN [k \in DOMAIN store \cup {key} |->
            IF k = key
            THEN [ser |-> Serialize(value), expires |-> <<>>,
                  orig |-> value, storedAt |-> now]
            ELSE store[k]]
    ELSE store

\* RedisClient.set: nothing is written when Redis is unavailable or the
\* write raises (ok = FALSE); `if ttl:` chooses SETEX, else SET
RedisSet(key, value, ttl, ok) ==
    IF available /\ ok
    THEN [k \in DOMAIN store \cup {key} |->
            IF k = key
            THEN [ser |-> Serialize(value),
                  expires |-> IF ttl # 0 THEN <<now + ttl>> ELSE <<>>,
                  orig |-> value, storedAt |-> now]
            ELSE store[k]]
    ELSE store

\* wrapper, from the await of redis_client.set to `return result`
CacheSet(c, ok) ==
    /\ callers[c].st = "set"
    /\ store' = RedisSet(callers[c].key, callers[c].result, callers[c].ttl, ok)
    /\ callers' = [callers EXCEPT ![c] =
           [@ EXCEPT !.st = "done", !.out = "return",
                     !.outVal = callers[c].result,
                     !.setOk = available /\ ok,
                     !.setAt = IF available /\ ok THEN now ELSE 0,
                     !.entry = IF available /\ ok
                               THEN store'[callers[c].key] ELSE NoEntry]]
    /\ UNCHANGED <<available, now, ticks>>
    /\ UNCHANGED notCache

\* time passes
Tick(d) ==
    /\ ticks < MaxTicks
    /\ now' = now + d
    /\ ticks' = ticks + 1
    /\ UNCHANGED <<available, store, callers>>
    /\ UNCHANGED notCache

NextCache ==
    \/ \E c \in CallerIds : \E k \in CachedCalls : CachedCall(c, k)
    \/ \E c \in CallerIds : \E ok \in BOOLEAN : CacheGet(c, ok)
    \/ \E c \in CallerIds :
          \E r \in RequestResults(callers[c].host) : FuncEnds(c, r)
    \/ \E c \in CallerIds : \E ok \in BOOLEAN : CacheSet(c, ok)
    \/ \E d \in Delays : Tick(d)

(***************************************************************************)
(* The cache key of a call.  CamaraAPI.get_deputados(uf, partido) is       *)
(* called twice; each call gives uf and partido by position or by keyword, *)
(* in either order, on one client object or another.                       *)
(***************************************************************************)
Ufs == {"SP", "RJ"}
Partidos == {"PT", "PSDB"}
KeyStyles == {"positional", "keyword", "keyword_reversed", "mixed"}

KeyCalls == [self : ClientIds, uf : Ufs, partido : Partidos, style : KeyStyles]

\* *args of the call as the wrapper receives them
KeyArgs(k) ==
    CASE k.style = "positional" -> <<<<"object", k.self>>, k.uf, k.partido>>
      [] k.style = "mixed" -> <<<<"object", k.self>>, k.uf>>
      [] OTHER -> <<<<"object", k.self>>>>

\* **kwargs of the call, a dict in the order the keywords were written
KeyKwargs(k) ==
    CASE k.style = "positional" -> <<>>
      [] k.style = "mixed" -> <<<<"partido", k.partido>>>>
      [] k.style = "keyword" -> <<<<"uf", k.uf>>, <<"partido", k.partido>>>>
      [] OTHER -> <<<<"partido", k.partido>>, <<"uf", k.uf>>>>

\* the key the wrapper of get_deputados computes for the call
KeyOf(k) ==
    CacheKey("camara:deputados", "get_deputados", KeyArgs(k), KeyKwargs(k))

\* what the call asks of the host: GET /deputados with these parameters
SignatureOf(k) ==
    [host |-> "camara", endpoint |-> "/deputados",
     params |-> {<<"siglaUf", k.uf>>, <<"siglaPartido", k.partido>>}]

NoKeyCall == [st |-> "none", a |-> <<>>, b |-> <<>>, keyA |-> <<>>, keyB |-> <<>>]

\* two calls are about to be made
InitKey ==
    \E a \in KeyCalls : \E b \in KeyCalls :
        keyed = [NoKeyCall EXCEPT !.st = "called", !.a = a, !.b = b]

\* both wrappers have computed their key
ComputeKeys ==
    /\ keyed.st = "called"
    /\ keyed' = [keyed EXCEPT !.st = "keyed",
                              !.keyA = KeyOf(keyed.a), !.keyB = KeyOf(keyed.b)]
    /\ UNCHANGED notKey

NextKey == ComputeKeys

(***************************************************************************)
(* The notification service.  A row of `notifications` is created PENDING  *)
(* and written by send_notification only; create_notification sends at     *)
(* once a notification without schedule, process_pending_notifications     *)
(* sends the due ones.  Each await is a step, so calls overlap.            *)
(***************************************************************************)
BatchLimit == 100

NotifIds == 1..MaxNotifs
TaskIds == 1..MaxTasks

\* scheduled_for: at once due, or due when the clock reaches MaxClock
ScheduleTimes == {0, MaxClock}

\* no row with this id
NoRow ==
    [status |-> "NONE", scheduled |-> <<>>, addr |-> FALSE, sent_at |-> <<>>,
     delivered_at |-> <<>>, error_message |-> "", posts |-> 0]

\* the row an insert into `notifications` leaves: status PENDING, no
\* timestamps; addr tells whether users.whatsapp_number of its user is set,
\* posts counts the messages handed to the Avisa API for it
NewRow(scheduled, addr) ==
    [NoRow EXCEPT !.status = "PENDING", !.scheduled = scheduled, !.addr = addr]

\* a call in progress: its place, its locals, what it hands back, a record
\* of its current send_notification (startStatus, posts, dres, derr and the
\* raise statement raisedAt), and of its loop (the batch as selected, the
\* ids send_notification was called on, and how each call ended)
IdleTask ==
    [kind |-> "none", pc |-> "idle", id |-> 0, scheduled |-> <<>>,
     batch |-> <<>>, processed |-> 0,
     whatsapp |-> FALSE, cause |-> "", out |-> "none", err |-> "",
     startStatus |-> "NONE", posts |-> 0, dres |-> "none", derr |-> "",
     raisedAt |-> "", selected |-> <<>>, sent |-> <<>>, results |-> <<>>]

\* the service is not in use
InitNotifyIdle ==
    /\ rows = [n \in NotifIds |-> NoRow]
    /\ clock = 0
    /\ tasks = [t \in TaskIds |-> IdleTask]

\* earlier calls of create_notification have left scheduled notifications
InitNotify ==
    /\ rows \in [NotifIds ->
                   {NoRow} \cup {NewRow(<<at>>, addr) :
                                    at \in ScheduleTimes, addr \in BOOLEAN}]
    /\ clock = 0
    /\ tasks = [t \in TaskIds |-> IdleTask]

\* faulty variant, for comparison: the status is written without its field
UpdateStatusOnly(n, status, field, value) ==
    [rows EXCEPT ![n].status = status]

\* faulty variant, for comparison: the field is written without the status
UpdateFieldOnly(n, status, field, value) ==
    [rows EXCEPT ![n] = [@ EXCEPT ![field] = value]]

\* faulty variant, for comparison: the update without its filter on the id
UpdateStatusAll(n, status, field, value) ==
    [m \in DOMAIN rows |->
        IF rows[m].status = "NONE" THEN rows[m]
        ELSE [[rows[m] EXCEPT !.status = status] EXCEPT ![field] = value]]

\* update_notification_status: one update of the row, status and one field
UpdateStatus(n, status, field, value) ==
    [rows EXCEPT ![n] = [[@ EXCEPT !.status = status] EXCEPT ![field] = value]]

\* send_notification(n) is called by task record k: up to its first await
DispatchStarts(k, n) ==
    [k EXCEPT !.pc = "fetch", !.id = n, !.whatsapp = FALSE, !.cause = "",
              !.startStatus = rows[n].status, !.posts = 0, !.dres = "none",
              !.derr = "", !.raisedAt = "", !.sent = Append(@, n)]

\* faulty variant, for comparison: an error of send_notification ends the
\* loop of process_pending_notifications
DispatchEndsAborting(k, res, err) ==
    LET e == [k EXCEPT !.dres = res, !.derr = err, !.results = Append(@, res)]
    IN  IF k.kind = "sweep" /\ res = "true"
        THEN [e EXCEPT !.pc = "loop", !.processed = @ + 1]
        ELSE [e EXCEPT !.pc = "done",
                       !.out = IF res = "true" THEN "return" ELSE "raise",
                       !.err = IF res = "true" THEN "" ELSE err]

\* faulty variant, for comparison: process_pending_notifications does not
\* count the sends that returned
DispatchEndsCountingNone(k, res, err) ==
    LET e == [k EXCEPT !.dres = res, !.derr = err, !.results = Append(@, res)]
    IN  IF k.kind = "sweep"
        THEN [e EXCEPT !.pc = "loop"]
        ELSE [e EXCEPT !.pc = "done",
                       !.out = IF res = "true" THEN "return" ELSE "raise",
                       !.err = IF res = "true" THEN "" ELSE err]

\* faulty variant, for comparison: process_pending_notifications counts
\* every send, also one that raised
DispatchEndsCountingAll(k, res, err) ==
    LET e == [k EXCEPT !.dres = res, !.derr = err, !.results = Append(@, res)]
    IN  IF k.kind = "sweep"
        THEN [e EXCEPT !.pc = "loop", !.processed = @ + 1]
        ELSE [e EXCEPT !.pc = "done",
                       !.out = IF res = "true" THEN "return" ELSE "raise",
                       !.err = IF res = "true" THEN "" ELSE err]

\* send_notification has returned True (res = "true") or raised err:
\* process_pending_notifications counts the return and goes on with its
\* batch whatever happened, create_notification returns the notification
\* or lets the error through
DispatchEnds(k, res, err) ==
    LET e == [k EXCEPT !.dres = res, !.derr = err, !.results = Append(@, res)]
    IN  IF k.kind = "sweep"
        THEN [e EXCEPT !.pc = "loop",
                       !.processed = IF res = "true" THEN @ + 1 ELSE @]
        ELSE [e EXCEPT !.pc = "done",
                       !.out = IF res = "true" THEN "return" ELSE "raise",
                       !.err = IF res = "true" THEN "" ELSE err]

\* send_notification, the select of the row with users(whatsapp_number):
\* the awaited query raises (ok = FALSE), or the row has no number and the
\* call raises, or the message is formatted and the update to SENT issued
Fetch(t, ok) ==
    /\ tasks[t].pc = "fetch"
    /\ LET k == tasks[t]
       IN  tasks' = [tasks EXCEPT ![t] =
               IF ~ok
               THEN DispatchEnds([k EXCEPT !.cause = "query",
                                           !.raisedAt = "query"],
                                 "raise", "Exception")
               ELSE IF ~rows[k.id].addr
               THEN DispatchEnds([k EXCEPT !.cause = "no_whatsapp",
                                           !.raisedAt = "whatsapp_check"],
                                 "raise", "NotificationServiceError")
               ELSE [k EXCEPT !.pc = "mark_sent", !.whatsapp = TRUE]]
    /\ UNCHANGED <<rows, clock>>
    /\ UNCHANGED notNotify

\* faulty variant, for comparison: the message is sent before SENT is written
MarkSentAfterSending(t, ok) ==
    /\ tasks[t].pc = "mark_sent"
    /\ tasks' = [tasks EXCEPT ![t].pc = "gateway"]
    /\ UNCHANGED <<rows, clock>>
    /\ UNCHANGED notNotify

\* send_notification, update_notification_status(SENT, sent_at): written,
\* or SupabaseClientError after the retries
MarkSent(t, ok) ==
    /\ tasks[t].pc = "mark_sent"
    /\ LET k == tasks[t]
       IN  IF ok
           THEN /\ rows' = UpdateStatus(k.id, "SENT", "sent_at", <<clock>>)
                /\ tasks' = [tasks EXCEPT ![t] = [k EXCEPT !.pc = "gateway"]]
           ELSE /\ rows' = rows
                /\ tasks' = [tasks EXCEPT ![t] =
                       DispatchEnds([k EXCEPT !.cause = "store",
                                              !.raisedAt = "store_handler"],
                                    "raise", "NotificationServiceError")]
    /\ UNCHANGED clock
    /\ UNCHANGED notNotify

\* the ways AvisaAPI.send_message ends: a 2xx answer, an error status, a
\* connection error
GatewayOutcomes == {"ok", "http", "conn"}

\* faulty variant, for comparison: a refused message is posted again
GatewayRetrying(t, g) ==
    /\ tasks[t].pc = "gateway"
    /\ LET k == tasks[t]
       IN  /\ rows' = [rows EXCEPT ![k.id].posts = @ + 1]
           /\ tasks' = [tasks EXCEPT ![t] =
                  IF g = "ok"
                  THEN [k EXCEPT !.pc = "mark_delivered", !.posts = @ + 1]
                  ELSE [k EXCEPT !.posts = @ + 1]]
    /\ UNCHANGED clock
    /\ UNCHANGED notNotify

\* send_notification, avisa.send_message: one POST to the Avisa API
Gateway(t, g) ==
    /\ tasks[t].pc = "gateway"
    /\ LET k == tasks[t]
       IN  /\ rows' = [rows EXCEPT ![k.id].posts = @ + 1]
           /\ tasks' = [tasks EXCEPT ![t] =
                  IF g = "ok"
                  THEN [k EXCEPT !.pc = "mark_delivered", !.posts = @ + 1]
                  ELSE [k EXCEPT !.pc = "mark_failed", !.posts = @ + 1,
                                 !.cause = g]]
    /\ UNCHANGED clock
    /\ UNCHANGED notNotify

\* send_notification, update_notification_status(DELIVERED, delivered_at):
\* written and True returned, or SupabaseClientError, which the
\* `except Exception` around the sending takes like an error of the sending
MarkDelivered(t, ok) ==
    /\ tasks[t].pc = "mark_delivered"
    /\ LET k == tasks[t]
           written == UpdateStatus(k.id, "DELIVERED", "delivered_at", <<clock>>)
       IN  IF ok
           THEN /\ rows' = written
                /\ tasks' = [tasks EXCEPT ![t] =
                       DispatchEnds(k, "true", "")]
           ELSE /\ rows' = rows
                /\ tasks' = [tasks EXCEPT ![t] =
                       [k EXCEPT !.pc = "mark_failed", !.cause = "store"]]
    /\ UNCHANGED clock
    /\ UNCHANGED notNotify

\* faulty variant, for comparison: the handler raises without writing FAILED
MarkFailedNoWrite(t, ok) ==
    /\ tasks[t].pc = "mark_failed"
    /\ tasks' = [tasks EXCEPT ![t] =
           DispatchEnds([tasks[t] EXCEPT !.raisedAt = "send_handler"],
                        "raise", "NotificationServiceError")]
    /\ UNCHANGED <<rows, clock>>
    /\ UNCHANGED notNotify

\* send_notification, update_notification_status(FAILED, error_message) in
\* the handler: written, and the handler raises NotificationServiceError;
\* or SupabaseClientError, which the outer handler turns into
\* NotificationServiceError
MarkFailed(t, ok) ==
    /\ tasks[t].pc = "mark_failed"
    /\ LET k == tasks[t]
           written == IF ok
                      THEN UpdateStatus(k.id, "FAILED", "error_message", k.cause)
                      ELSE rows
           at == IF ok THEN "send_handler" ELSE "store_handler"
       IN  /\ rows' = written
           /\ tasks' = [tasks EXCEPT ![t] =
                  DispatchEnds([k EXCEPT !.raisedAt = at],
                               "raise", "NotificationServiceError")]
    /\ UNCHANGED clock
    /\ UNCHANGED notNotify

\* status = PENDING and scheduled_for <= now; a null scheduled_for does not
\* satisfy `lte`
IsDue(n) ==
    /\ rows[n].status = "PENDING"
    /\ rows[n].scheduled # <<>>
    /\ rows[n].scheduled[1] <= clock

\* the due notifications among 1..n, by id
DueUpTo(n) ==
    SelectSeq([m \in 1..n |-> m], IsDue)

\* faulty variant, for comparison: the query without its limit
Unlimited(q) ==
    q

\* .limit(100)
Limited(q) ==
    IF Len(q) > BatchLimit THEN SubSeq(q, 1, BatchLimit) ELSE q

\* the calls are interchangeable: they are numbered in the order they start
IsNextTask(t) ==
    /\ tasks[t].pc = "idle"
    /\ \A u \in TaskIds : u < t => tasks[u].pc # "idle"

\* process_pending_notifications is called
SweepCall(t) ==
    /\ IsNextTask(t)
    /\ tasks' = [tasks EXCEPT ![t] = [@ EXCEPT !.kind = "sweep", !.pc = "query"]]
    /\ UNCHANGED <<rows, clock>>
    /\ UNCHANGED notNotify

\* process_pending_notifications, the select of the due notifications: the
\* awaited query raises (ok = FALSE) and the error leaves the method, or
\* the batch is read
Query(t, ok) ==
    /\ tasks[t].pc = "query"
    /\ tasks' = [tasks EXCEPT ![t] =
           IF ok
           THEN LET q == Limited(DueUpTo(Cardinality(DOMAIN rows)))
                IN  [@ EXCEPT !.pc = "loop", !.batch = q, !.selected = q]
           ELSE [@ EXCEPT !.pc = "done", !.out = "raise", !.err = "Exception"]]
    /\ UNCHANGED <<rows, clock>>
    /\ UNCHANGED notNotify

\* process_pending_notifications, `for notif in notifications`: the next
\* notification of the batch is sent, or the count is returned
LoopNext(t) ==
    /\ tasks[t].pc = "loop"
    /\ LET k == tasks[t]
       IN  tasks' = [tasks EXCEPT ![t] =
               IF k.batch # <<>>
               THEN DispatchStarts([k EXCEPT !.batch = Tail(@)], Head(k.batch))
               ELSE [k EXCEPT !.pc = "done", !.out = "return"]]
    /\ UNCHANGED <<rows, clock>>
    /\ UNCHANGED notNotify

\* create_notification is called, with or without scheduled_for
CreateCall(t, scheduled) ==
    /\ IsNextTask(t)
    /\ tasks' = [tasks EXCEPT ![t] =
           [@ EXCEPT !.kind = "create", !.pc = "lookup",
                     !.scheduled = scheduled]]
    /\ UNCHANGED <<rows, clock>>
    /\ UNCHANGED notNotify

\* create_notification, the select of the user: the awaited query raises
\* (ok = FALSE), or there is no such user, or the insert is issued
Lookup(t, found, ok) ==
    /\ tasks[t].pc = "lookup"
    /\ tasks' = [tasks EXCEPT ![t] =
           IF ~ok
           THEN [@ EXCEPT !.pc = "done", !.out = "raise", !.err = "Exception",
                          !.cause = "query"]
           ELSE IF ~found
           THEN [@ EXCEPT !.pc = "done", !.out = "raise",
                          !.err = "NotificationServiceError",
                          !.cause = "no_user"]
           ELSE [@ EXCEPT !.pc = "insert"]]
    /\ UNCHANGED <<rows, clock>>
    /\ UNCHANGED notNotify

\* the ids not yet given to a row
FreeIds == {n \in NotifIds : rows[n].status = "NONE"}

\* create_notification, supabase.create_notification: the row is inserted
\* (its user having a WhatsApp number or not) and, without scheduled_for,
\* send_notification is called; or SupabaseClientError after the retries
Insert(t, addr, ok) ==
    /\ tasks[t].pc = "insert"
    /\ FreeIds # {}
    /\ LET k == tasks[t]
           n == CHOOSE m \in FreeIds : \A o \in FreeIds : m <= o
           inserted == [rows EXCEPT ![n] = NewRow(k.scheduled, addr)]
       IN  IF ok
           THEN /\ rows' = inserted
                /\ tasks' = [tasks EXCEPT ![t] =
                       IF k.scheduled = <<>>
                       THEN [DispatchStarts(k, n) EXCEPT
                                !.startStatus = "PENDING"]
                       ELSE [k EXCEPT !.pc = "done", !.id = n,
                                      !.out = "return"]]
           ELSE /\ rows' = rows
                /\ tasks' = [tasks EXCEPT ![t] =
                       [k EXCEPT !.pc = "done", !.out = "raise",
                                 !.err = "NotificationServiceError",
                                 !.cause = "store"]]
    /\ UNCHANGED clock
    /\ UNCHANGED notNotify

\* time passes
TickClock ==
    /\ clock < MaxClock
    /\ clock' = clock + 1
    /\ UNCHANGED <<rows, tasks>>
    /\ UNCHANGED notNotify

NextNotify ==
    \/ \E t \in TaskIds : SweepCall(t)
    \/ \E t \in TaskIds : \E ok \in BOOLEAN : Query(t, ok)
    \/ \E t \in TaskIds : LoopNext(t)
    \/ \E t \in TaskIds : \E at \in {<<>>} \cup {<<x>> : x \in ScheduleTimes} :
          CreateCall(t, at)
    \/ \E t \in TaskIds : \E found \in BOOLEAN : \E ok \in BOOLEAN :
          Lookup(t, found, ok)
    \/ \E t \in TaskIds : \E addr \in BOOLEAN : \E ok \in BOOLEAN :
          Insert(t, addr, ok)
    \/ \E t \in TaskIds : \E ok \in BOOLEAN : Fetch(t, ok)
    \/ \E t \in TaskIds : \E ok \in BOOLEAN : MarkSent(t, ok)
    \/ \E t \in TaskIds : \E g \in GatewayOutcomes : Gateway(t, g)
    \/ \E t \in TaskIds : \E ok \in BOOLEAN : MarkDelivered(t, ok)
    \/ \E t \in TaskIds : \E ok \in BOOLEAN : MarkFailed(t, ok)
    \/ TickClock

(***************************************************************************)
(* One sweep over a table with about BatchLimit due notifications: the     *)
(* same actions, the store and the Avisa API answering.                    *)
(***************************************************************************)
BatchIds == 1..(BatchLimit + MaxExtra)

\* a notification that was due and has been delivered
DeliveredRow ==
    [NewRow(<<0>>, TRUE) EXCEPT !.status = "DELIVERED", !.sent_at = <<0>>,
                                !.delivered_at = <<0>>, !.posts = 1]

\* the first d notifications are PENDING and due (the user of the first one
\* with or without a WhatsApp number); the others do not exist, or are
\* scheduled for later, or are delivered already
InitBatch ==
    /\ \E d \in (BatchLimit - 1)..(BatchLimit + MaxExtra) :
       \E addr \in BOOLEAN :
       \E other \in {NoRow, NewRow(<<MaxClock>>, TRUE), DeliveredRow} :
          rows = [n \in BatchIds |->
                    IF n <= d THEN NewRow(<<0>>, n > 1 \/ addr) ELSE other]
    /\ clock = 0
    /\ tasks = [t \in TaskIds |-> IdleTask]

NextBatch ==
    \/ SweepCall(1)
    \/ Query(1, TRUE)
    \/ LoopNext(1)
    \/ Fetch(1, TRUE)
    \/ MarkSent(1, TRUE)
    \/ Gateway(1, "ok")
    \/ MarkDelivered(1, TRUE)

(***************************************************************************)
(* The cron job: process_pending_notifications is called again and again   *)
(* over a table with about BatchLimit due notifications, the first ones of *)
(* users without a WhatsApp number; the store and the Avisa API answer.    *)
(***************************************************************************)
\* the first d notifications are PENDING and due, the first f of them of
\* users without a WhatsApp number; the others do not exist
InitCron ==
    /\ \E d \in {BatchLimit, BatchLimit + MaxExtra} :
       \E f \in {0, 1, BatchLimit} :
          rows = [n \in BatchIds |->
                    IF n <= d THEN NewRow(<<0>>, n > f) ELSE NoRow]
    /\ clock = 0
    /\ tasks = [t \in TaskIds |-> IdleTask]

\* the call of process_pending_notifications has ended and the route has
\* answered: the cron job can call again
SweepAgain(t) ==
    /\ tasks[t].kind = "sweep"
    /\ tasks[t].pc = "done"
    /\ tasks' = [tasks EXCEPT ![t] = IdleTask]
    /\ UNCHANGED <<rows, clock>>
    /\ UNCHANGED notNotify

NextCron ==
    \/ SweepCall(1)
    \/ Query(1, TRUE)
    \/ LoopNext(1)
    \/ Fetch(1, TRUE)
    \/ MarkSent(1, TRUE)
    \/ Gateway(1, "ok")
    \/ MarkDelivered(1, TRUE)
    \/ SweepAgain(1)

(***************************************************************************)
(* The normalizers.  A record of an API is a dict; a key is present or     *)
(* absent, and the nested object (ultimoStatus, IdentificacaoParlamentar)  *)
(* is absent, null, or a dict with some of its keys.                       *)
(***************************************************************************)
\* Python values
PyNone == [t |-> "None"]
PyStr(x) == [t |-> "str", v |-> x]
PyInt(n) == [t |-> "int", v |-> n]
PyDict(f) == [t |-> "dict", v |-> f]
EmptyDict == PyDict([k \in {} |-> PyNone])

\* str(x)
Str(x) ==
    CASE x.t = "None" -> PyStr("None")
      [] x.t = "int" -> PyStr(ToString(x.v))
      [] OTHER -> x

\* d.get(k, default); on None it raises AttributeError (see Normalize)
Get(d, k, default) == IF k \in DOMAIN d.v THEN d.v[k] ELSE default

DeputadoKeys == {"id", "nomeCivil", "nome", "cpf", "escolaridade", "urlWebsite"}
UltimoStatusKeys == {"nome", "siglaPartido", "siglaUf", "email", "urlFoto"}
IdentificacaoKeys ==
    {"CodigoParlamentar", "NomeCompletoParlamentar", "NomeParlamentar",
     "SiglaPartidoParlamentar", "UfParlamentar", "EmailParlamentar",
     "UrlFotoParlamentar", "UrlPaginaParlamentar"}

\* the value a present key has: the ids are numbers, the rest text
Sample(k) ==
    IF k \in {"id", "CodigoParlamentar"} THEN PyInt(1) ELSE PyStr(k)

\* the dicts with some of the keys K
DictsOver(K) == {PyDict([k \in S |-> Sample(k)]) : S \in SUBSET K}

\* a dict with one more key
With(d, key, value) ==
    PyDict([k \in DOMAIN d.v \cup {key} |-> IF k = key THEN value ELSE d.v[k]])

\* what the nested object can be when its key is present
NestedOver(K) == {PyNone} \cup DictsOver(K)

DeputadoRecords ==
    DictsOver(DeputadoKeys)
    \cup {With(d, "ultimoStatus", us) :
             d \in DictsOver(DeputadoKeys), us \in NestedOver(UltimoStatusKeys)}

SenadorRecords ==
    {EmptyDict}
    \cup {With(EmptyDict, "IdentificacaoParlamentar", ip) :
             ip \in NestedOver(IdentificacaoKeys)}

NoSocial == [website |-> PyNone, twitter |-> PyNone, facebook |-> PyNone,
             instagram |-> PyNone]

\* CamaraAPI.normalize_deputado, for ultimoStatus absent or a dict
normalize_deputado(data) ==
    LET us == Get(data, "ultimoStatus", EmptyDict)
    IN  [external_id |-> Str(Get(data, "id", PyNone)),
         name |-> Get(data, "nomeCivil", PyStr("")),
         parliamentary_name |-> Get(us, "nome", Get(data, "nome", PyStr(""))),
         cpf |-> Get(data, "cpf", PyNone),
         position |-> PyStr("DEPUTADO_FEDERAL"),
         party |-> Get(us, "siglaPartido", PyStr("")),
         state |-> Get(us, "siglaUf", PyStr("")),
         email |-> Get(us, "email", PyNone),
         photo_url |-> Get(us, "urlFoto", PyNone),
         biography |-> Get(data, "escolaridade", PyNone),
         social_media |->
             [NoSocial EXCEPT !.website = Get(data, "urlWebsite", PyNone)]]

\* SenadoAPI.normalize_senador, for IdentificacaoParlamentar absent or a dict
normalize_senador(data) ==
    LET identificacao == Get(data, "IdentificacaoParlamentar", EmptyDict)
    IN  [external_id |-> Str(Get(identificacao, "CodigoParlamentar", PyNone)),
         name |-> Get(identificacao, "NomeCompletoParlamentar", PyStr("")),
         parliamentary_name |-> Get(identificacao, "NomeParlamentar", PyStr("")),
         cpf |-> PyNone,
         position |-> PyStr("SENADOR"),
         party |-> Get(identificacao, "SiglaPartidoParlamentar", PyStr("")),
         state |-> Get(identificacao, "UfParlamentar", PyStr("")),
         email |-> Get(identificacao, "EmailParlamentar", PyNone),
         photo_url |-> Get(identificacao, "UrlFotoParlamentar", PyNone),
         biography |-> PyNone,
         social_media |->
             [NoSocial EXCEPT
                 !.website = Get(identificacao, "UrlPaginaParlamentar", PyNone)]]

\* the key of the nested object of a record of host h
NestedKey(h) == IF h = "camara" THEN "ultimoStatus" ELSE "IdentificacaoParlamentar"

\* the nested object is null: `.get` on None raises AttributeError
NestedIsNull(h, data) ==
    /\ NestedKey(h) \in DOMAIN data.v
    /\ data.v[NestedKey(h)].t = "None"

NoNormCall == [st |-> "none", host |-> "none", data |-> EmptyDict,
               raised |-> "", out |-> <<>>]

\* a record of one of the two APIs is about to be normalized
InitNorm ==
    \/ \E d \in DeputadoRecords :
          norm = [NoNormCall EXCEPT !.st = "called", !.host = "camara", !.data = d]
    \/ \E d \in SenadorRecords :
          norm = [NoNormCall EXCEPT !.st = "called", !.host = "senado", !.data = d]

\* the normalizer returns the canonical record or raises
Normalize ==
    /\ norm.st = "called"
    /\ norm' =
          IF NestedIsNull(norm.host, norm.data)
          THEN [norm EXCEPT !.st = "done", !.raised = "AttributeError"]
          ELSE [norm EXCEPT !.st = "done",
                            !.out = IF norm.host = "camara"
                                    THEN normalize_deputado(norm.data)
                                    ELSE normalize_senador(norm.data)]
    /\ UNCHANGED notNorm

NextNorm == Normalize

(***************************************************************************)
(* Specifications                                                          *)
(***************************************************************************)
vars == <<host, sem, load, call, pub, available, store, now, ticks, callers,
          keyed, rows, clock, tasks, norm>>

\* the retrying clients: the observed call of _request among other calls
Init ==
    /\ InitClient /\ pub = NoPublicCall /\ InitCacheIdle /\ keyed = NoKeyCall
    /\ InitNotifyIdle /\ norm = NoNormCall
Next == NextClient
Spec == Init /\ [][Next]_vars

\* Scheduling: a GET ends (httpx timeout), a sleep ends, the other calls
\* conclude, and asyncio.Semaphore wakes its waiters in order of arrival, so
\* a waiter is not passed over for ever.
Fairness ==
    /\ SF_vars(Acquire)
    /\ WF_vars(\E o \in AttemptOutcomes(CallHost) :
                 \/ AttemptSucceeds(o)
                 \/ AttemptNotFound(o)
                 \/ AttemptRetries(o)
                 \/ AttemptExhausts(o))
    /\ WF_vars(Wake)
    /\ \A i \in ClientIds : WF_vars(LoadFinish(i))
FairSpec == Spec /\ Fairness

\* the public methods, over every way their call of _request can end
InitPublicSpec ==
    /\ InitClient /\ InitPublic /\ InitCacheIdle /\ keyed = NoKeyCall
    /\ InitNotifyIdle /\ norm = NoNormCall
SpecPublic == InitPublicSpec /\ [][NextPublic]_vars

\* the cached methods, called by several callers while time passes
InitCacheSpec ==
    /\ InitClient /\ pub = NoPublicCall /\ InitCache /\ keyed = NoKeyCall
    /\ InitNotifyIdle /\ norm = NoNormCall
SpecCache == InitCacheSpec /\ [][NextCache]_vars

\* the cache key, over pairs of calls of get_deputados
InitKeySpec ==
    /\ InitClient /\ pub = NoPublicCall /\ InitCacheIdle /\ InitKey
    /\ InitNotifyIdle /\ norm = NoNormCall
SpecKey == InitKeySpec /\ [][NextKey]_vars

\* the notification service: calls of create_notification and of
\* process_pending_notifications, overlapping, while time passes
InitNotifySpec ==
    /\ InitClient /\ pub = NoPublicCall /\ InitCacheIdle /\ keyed = NoKeyCall
    /\ InitNotify /\ norm = NoNormCall
SpecNotify == InitNotifySpec /\ [][NextNotify]_vars

\* one call of process_pending_notifications on a large table
InitBatchSpec ==
    /\ InitClient /\ pub = NoPublicCall /\ InitCacheIdle /\ keyed = NoKeyCall
    /\ InitBatch /\ norm = NoNormCall
SpecBatch == InitBatchSpec /\ [][NextBatch]_vars

\* the cron job calling process_pending_notifications for ever
InitCronSpec ==
    /\ InitClient /\ pub = NoPublicCall /\ InitCacheIdle /\ keyed = NoKeyCall
    /\ InitCron /\ norm = NoNormCall
SpecCron == InitCronSpec /\ [][NextCron]_vars

\* Scheduling: the cron job fires periodically, and every await of a sweep
\* ends (the store and the Avisa API answer), so a sweep that can take a
\* step takes it.
CronFairness ==
    /\ WF_vars(SweepCall(1))
    /\ WF_vars(Query(1, TRUE))
    /\ WF_vars(LoopNext(1))
    /\ WF_vars(Fetch(1, TRUE))
    /\ WF_vars(MarkSent(1, TRUE))
    /\ WF_vars(Gateway(1, "ok"))
    /\ WF_vars(MarkDelivered(1, TRUE))
    /\ WF_vars(SweepAgain(1))
FairCron == SpecCron /\ CronFairness

\* the normalizers, over records with fields missing
InitNormSpec ==
    /\ InitClient /\ pub = NoPublicCall /\ InitCacheIdle /\ keyed = NoKeyCall
    /\ InitNotifyIdle /\ InitNorm
SpecNorm == InitNormSpec /\ [][NextNorm]_vars

(***************************************************************************)
(* Claims about the retrying clients                                       *)
(***************************************************************************)
LastStatus == IF Len(call.hist) = 0 THEN "" ELSE call.hist[Len(call.hist)]

AllTransient == \A k \in 1..Len(call.hist) : call.hist[k] \in {"500", "conn"}

\* C1: for every host, the number of calls to that host executing at the
\* same time (inside `async with` of any client of the host) never exceeds
\* the host's permit count (10, 10, 5).
C1_HostCap == \A h \in Hosts : Running(h) <= Permits(h)

\* C2: the call holds exactly one permit from its first attempt to its end
\* (through every attempt and every backoff wait) and none before or after,
\* on every exit path: the free permits of a client are its capacity minus
\* the calls in flight on it, so they equal the capacity when no call is in
\* flight and stay within 0..capacity.
C2_PermitAccounting ==
    \A i \in ClientIds :
        host[i] # "none" =>
            /\ sem[i] >= 0
            /\ sem[i] <= Permits(host[i])
            /\ sem[i] = Permits(host[i]) - load[i]
                        - (IF call.client = i /\ call.st \in {"attempt", "sleep"}
                           THEN 1 ELSE 0)

\* a call that ended by exhausting its retries, with no other call in
\* flight, and the permits back at capacity
C2_Witness ==
    /\ call.st = "done"
    /\ call.res = "error"
    /\ Len(call.hist) = DefaultRetry
    /\ load[call.client] = 0
    /\ sem[call.client] = Permits(CallHost)

\* C3: a 404, on whatever attempt, ends the call at once: it is the last
\* attempt, no wait follows it (the waits are those before it), and so a 404
\* on the first attempt means one attempt and no wait.
C3_NotFoundConcludes ==
    \A k \in 1..Len(call.hist) :
        call.hist[k] = "404" =>
            /\ k = Len(call.hist)
            /\ call.st = "done"
            /\ call.attempt = k - 1
            /\ Len(call.waits) = k - 1

\* a 404 on the second attempt, after one retry
C3_Witness ==
    /\ call.st = "done"
    /\ call.hist = <<"500", "404">>
    /\ Len(call.waits) = 1

\* C4 as stated: a call that met a 404 fails with the not-found error, for
\* every client.
C4_NotFoundFails ==
    (call.st = "done" /\ LastStatus = "404") =>
        /\ call.res = "error"
        /\ call.err = [msg |-> "Recurso nao encontrado", status |-> "404"]

\* C4 amended: a call that met a 404 fails with the not-found error on the
\* Camara and Senado clients, and returns the empty list on the
\* Transparencia client.
C4_NotFoundByHost ==
    (call.st = "done" /\ LastStatus = "404") =>
        IF CallHost = "transparencia"
        THEN call.res = "ok" /\ call.val = JArr(<<>>)
        ELSE /\ call.res = "error"
             /\ call.err = [msg |-> "Recurso nao encontrado", status |-> "404"]

\* a Transparencia call that met a 404 and returned the empty list
C4_Witness ==
    /\ call.st = "done"
    /\ LastStatus = "404"
    /\ CallHost = "transparencia"
    /\ call.res = "ok"

\* C5: when every attempt fails with a transient error, there are exactly
\* DefaultRetry attempts, one wait of backoff(k) after the k-th failure except
\* after the last, and the call fails with the error of the last attempt.
C5_ExhaustsAfterAllAttempts ==
    /\ call.st \in {"attempt", "sleep"} =>
           Len(call.waits) = (IF call.st = "sleep" THEN call.attempt + 1
                              ELSE call.attempt)
    /\ (call.st = "done" /\ AllTransient) =>
           /\ Len(call.hist) = DefaultRetry
           /\ Len(call.waits) = DefaultRetry - 1
           /\ \A k \in 1..Len(call.waits) : call.waits[k] = Backoff(CallHost, k - 1)
           /\ call.res = "error"
           /\ call.err.status = LastStatus
           /\ call.err.msg = (IF LastStatus = "conn" THEN "Erro de conexao"
                              ELSE "Erro HTTP")

\* three failures of mixed kinds, then the error
C5_Witness ==
    /\ call.st = "done"
    /\ call.hist = <<"500", "conn", "500">>
    /\ call.res = "error"

\* C6: the k-th wait is base^(k-1) seconds, base 2 for Camara and Senado and
\* base 3 for Transparencia; a call that exhausts its three attempts has
\* waited 1, 2 or 1, 3 seconds, whatever the kind of the failures.
C6_BackoffPowers ==
    LET powers == IF CallHost = "transparencia" THEN <<1, 3, 9, 27>>
                  ELSE <<1, 2, 4, 8>> IN
    /\ Len(call.waits) <= 4
    /\ \A k \in 1..Len(call.waits) : call.waits[k] = powers[k]
    /\ (call.st = "done" /\ AllTransient) =>
           call.waits = (IF CallHost = "transparencia" THEN <<1, 3>> ELSE <<1, 2>>)

\* a Transparencia call that waited 1 s then 3 s, after a connection error
\* and an HTTP error
C6_Witness ==
    /\ CallHost = "transparencia"
    /\ call.waits = <<1, 3>>
    /\ call.hist[1] = "conn"
    /\ call.hist[2] = "500"

\* what the attempts before the last one were
EarlierTransient ==
    \A k \in 1..(Len(call.hist) - 1) : call.hist[k] \in {"500", "conn"}

\* C7 as stated: a call whose k-th attempt succeeds after k-1 transient
\* failures returns the parsed body of that response, after k attempts and
\* k-1 waits, and attempts nothing after the success.
C7_ReturnsBody ==
    /\ \A k \in 1..Len(call.hist) :
           call.hist[k] = "200" => k = Len(call.hist) /\ call.st = "done"
    /\ (call.st = "done" /\ LastStatus = "200") =>
           /\ EarlierTransient
           /\ call.attempt = Len(call.hist) - 1
           /\ Len(call.waits) = Len(call.hist) - 1
           /\ call.res = "ok"
           /\ call.val = call.body

\* C7 amended: the same, where the Transparencia client returns a body that
\* is not a list wrapped in a one-element list.
C7_ReturnsBodyOrWrapped ==
    /\ \A k \in 1..Len(call.hist) :
           call.hist[k] = "200" => k = Len(call.hist) /\ call.st = "done"
    /\ (call.st = "done" /\ LastStatus = "200") =>
           /\ EarlierTransient
           /\ call.attempt = Len(call.hist) - 1
           /\ Len(call.waits) = Len(call.hist) - 1
           /\ call.res = "ok"
           /\ call.val = (IF CallHost = "transparencia" /\ call.body.t # "arr"
                          THEN [t |-> "arr", v |-> call.body.v]
                          ELSE call.body)

\* 500, 500, 200 on a Camara client: waits of 1 s and 2 s, the body returned
C7_Witness ==
    /\ call.st = "done"
    /\ CallHost = "camara"
    /\ call.hist = <<"500", "500", "200">>
    /\ call.waits = <<1, 2>>
    /\ call.res = "ok"
    /\ call.val = call.body

\* C8: a call never makes more than DefaultRetry attempts, a call waiting
\* for a permit eventually gets one, and every call that was issued
\* eventually concludes.
C8_Terminates ==
    /\ [](Len(call.hist) <= DefaultRetry)
    /\ (call.st = "acquire") ~> (call.st = "attempt")
    /\ (call.st # "idle") ~> (call.st = "done")

\* the call waits for a permit while the other calls hold them all
C8_Witness ==
    /\ call.st = "acquire"
    /\ sem[call.client] = 0
    /\ load[call.client] = Permits(CallHost)

(***************************************************************************)
(* Claims about the public methods                                         *)
(***************************************************************************)
\* C9: when the call of _request raised (not found, or retries exhausted),
\* the public method raises the same error to its caller; it never returns a
\* value instead.
C9_ErrorsPropagate ==
    (pub.st = "returned" /\ pub.res = "error") =>
        pub.out = "raise" /\ pub.outErr = pub.err

(***************************************************************************)
(* Claims about the cache                                                  *)
(***************************************************************************)
\* C10: when the backend holds an unexpired entry for the key of a cached
\* call, the call returns the cached value, equal to what the populating
\* call returned, and the wrapped method is not invoked.
C10_HitReturnsCached ==
    \A c \in CallerIds :
        callers[c].found =>
            /\ callers[c].st = "done"
            /\ callers[c].fromCache
            /\ callers[c].out = "return"
            /\ callers[c].outVal = callers[c].foundOrig
            /\ callers[c].invoked = 0

\* the calls of the decorated methods of the clients
ClientCallers ==
    {c \in CallerIds : callers[c].name \in {m.name : m \in CachedMethods}}

\* C11: a call that finds no entry or an expired entry for its key invokes
\* the wrapped method exactly once; when the method succeeds (and Redis takes
\* the write) the entry stored for the key holds the result and expires at
\* now + ttl, and the result is returned.
C11_MissInvokesOnceAndStores ==
    \A c \in ClientCallers :
        (callers[c].getOk /\ ~callers[c].found) =>
            /\ callers[c].invoked <= 1
            /\ callers[c].st = "func" => callers[c].invoked = 0
            /\ callers[c].st \in {"set", "done"} => callers[c].invoked = 1
            /\ (callers[c].st = "done" /\ callers[c].funcOut.out = "return") =>
                   /\ callers[c].out = "return"
                   /\ callers[c].outVal = callers[c].funcOut.outVal
                   /\ callers[c].setOk =>
                          /\ Deserialize(callers[c].entry.ser) = callers[c].outVal
                          /\ callers[c].entry.expires =
                                 <<callers[c].setAt + callers[c].ttl>>

\* a call that found its entry expired has run the method and stored anew
C11_Witness ==
    \E c \in ClientCallers :
        /\ callers[c].stale
        /\ callers[c].st = "done"
        /\ callers[c].invoked = 1
        /\ callers[c].setOk
        /\ callers[c].entry.expires = <<callers[c].setAt + callers[c].ttl>>
        /\ callers[c].setAt > 0

\* C12: when the call of _request behind a cached method fails, the error
\* reaches the caller of the cached method and nothing is written to the
\* cache, for every cached method.
C12_FailedCallStoresNothing ==
    \A c \in CallerIds :
        callers[c].failed =>
            /\ callers[c].st = "done"
            /\ callers[c].out = "raise"
            /\ ~callers[c].setOk

\* what a call handed to its caller
Handed(c) ==
    [out |-> callers[c].out, outVal |-> callers[c].outVal,
     outErr |-> callers[c].outErr]

\* C13: when Redis is unavailable or its read or write raises, the wrapper
\* acts as on a miss and stores nothing: it invokes the method and hands its
\* result or its error to the caller, never an error of the cache.
C13_BackendFailureDegrades ==
    /\ [](\A c \in CallerIds :
            /\ (callers[c].st \in {"func", "set", "done"} /\ ~callers[c].getOk) =>
                   /\ ~callers[c].fromCache
                   /\ callers[c].st = "done" => callers[c].invoked = 1
            /\ (callers[c].st = "done" /\ callers[c].invoked = 1) =>
                   Handed(c) = callers[c].funcOut
            /\ (callers[c].st = "done" /\ callers[c].invoked = 0) =>
                   /\ callers[c].fromCache
                   /\ callers[c].out = "return")
    /\ [][\A c \in CallerIds :
            (callers[c].st = "set" /\ callers'[c].st = "done"
             /\ ~callers'[c].setOk) => store' = store]_vars

\* a call whose read and write both failed, while Redis held a live entry
\* for its key, has returned what the method returned
C13_Witness ==
    \E c \in CallerIds :
        /\ callers[c].st = "done"
        /\ ~callers[c].getOk
        /\ ~callers[c].setOk
        /\ callers[c].invoked = 1
        /\ callers[c].out = "return"
        /\ Live(callers[c].key)

\* C15: for every ttl given to the decorator, ttl = 0 included, a value
\* returned from the cache was stored at most ttl seconds earlier.
C15_NoExpiredReturned ==
    \A c \in CallerIds :
        callers[c].fromCache => callers[c].foundAge <= callers[c].ttl

\* C16: callers of one key that all miss each return the value their own
\* invocation of the method produced; each accepted write leaves for the key
\* the whole entry of that writer, so the key holds the entry of the last
\* writer, and every entry held is the entry some caller wrote.
C16_LastWriterWins ==
    /\ \A c \in CallerIds :
           (callers[c].st = "done" /\ callers[c].invoked = 1
            /\ callers[c].funcOut.out = "return") =>
               /\ callers[c].outVal = callers[c].funcOut.outVal
               /\ callers[c].setOk =>
                      /\ callers[c].entry.orig = callers[c].outVal
                      /\ callers[c].entry.ser = Serialize(callers[c].outVal)
                      /\ callers[c].entry.storedAt = callers[c].setAt
    /\ \A k \in DOMAIN store :
           \E c \in CallerIds :
               /\ callers[c].key = k
               /\ callers[c].setOk
               /\ callers[c].entry = store[k]

\* two callers of one key both missed, both wrote at the same time different
\* values, and the key holds the entry of one of them only
C16_Witness ==
    \E c \in CallerIds : \E b \in CallerIds :
        /\ c # b
        /\ callers[c].key = callers[b].key
        /\ callers[c].st = "done" /\ callers[b].st = "done"
        /\ callers[c].getOk /\ ~callers[c].found /\ callers[c].setOk
        /\ callers[b].getOk /\ ~callers[b].found /\ callers[b].setOk
        /\ callers[c].setAt = callers[b].setAt
        /\ callers[c].ttl # 0
        /\ callers[c].outVal # callers[b].outVal
        /\ store[callers[c].key] = callers[c].entry
        /\ store[callers[c].key] # callers[b].entry

(***************************************************************************)
(* Claims about the cache key                                              *)
(***************************************************************************)
\* C14: two calls get the same cache key exactly when they have the same
\* host, endpoint and parameter name/value pairs, whatever the order of the
\* parameters, whether they are positional or keyword, and whichever client
\* object makes the call.
C14_KeyBySignature ==
    keyed.st = "keyed" =>
        ((SignatureOf(keyed.a) = SignatureOf(keyed.b))
            <=> (keyed.keyA = keyed.keyB))

(***************************************************************************)
(* Claims about the notification service                                   *)
(***************************************************************************)
AllowedTransitions ==
    {<<"PENDING", "SENT">>, <<"SENT", "DELIVERED">>,
     <<"PENDING", "FAILED">>, <<"SENT", "FAILED">>}

\* the places of a call inside send_notification
DispatchPcs == {"fetch", "mark_sent", "gateway", "mark_delivered", "mark_failed"}

\* C17: every change of the status of an existing notification is one of
\* PENDING->SENT, SENT->DELIVERED, PENDING->FAILED, SENT->FAILED; so no
\* change re-enters PENDING and DELIVERED and FAILED are never left.
C17_StatusMovesForward ==
    [][\A n \in NotifIds :
          (rows[n].status # "NONE" /\ rows'[n].status # rows[n].status)
              => <<rows[n].status, rows'[n].status>> \in AllowedTransitions]_vars

\* C18: whenever a call is inside send_notification, the notification it
\* was called on had status PENDING at the moment of the call.
C18_DispatchOnlyPending ==
    \A t \in TaskIds :
        tasks[t].pc \in DispatchPcs => tasks[t].startStatus = "PENDING"

\* C19: when send_notification, called on a PENDING notification, finds no
\* WhatsApp number for its user, it leaves the notification FAILED with an
\* error message, ends in failure, and has not called the Avisa API.
C19_UnresolvedFails ==
    [][\A t \in TaskIds :
          (/\ tasks[t].pc = "fetch"
           /\ tasks[t].startStatus = "PENDING"
           /\ tasks'[t].pc # "fetch"
           /\ tasks'[t].cause = "no_whatsapp")
              => /\ rows'[tasks[t].id].status = "FAILED"
                 /\ rows'[tasks[t].id].error_message # ""
                 /\ tasks'[t].dres = "raise"
                 /\ tasks'[t].posts = 0]_vars

\* C20: when send_notification, called on a PENDING notification, has found
\* the WhatsApp number, the Avisa API has accepted the message and the
\* store has taken the writes, the call returns True and leaves the
\* notification DELIVERED with sent_at and delivered_at set and
\* sent_at <= delivered_at.
C20_DeliveredWithTimes ==
    [][\A t \in TaskIds :
          (/\ tasks[t].pc = "mark_delivered"
           /\ tasks[t].startStatus = "PENDING"
           /\ tasks'[t].pc \notin {"mark_delivered", "mark_failed"})
              => LET r == rows'[tasks[t].id]
                 IN  /\ tasks'[t].dres = "true"
                     /\ r.status = "DELIVERED"
                     /\ r.sent_at # <<>>
                     /\ r.delivered_at # <<>>
                     /\ r.sent_at[1] <= r.delivered_at[1]]_vars

\* a send of a PENDING notification has returned True, the notification is
\* DELIVERED and time has passed between the two writes
C20_Witness ==
    \E t \in TaskIds :
        /\ tasks[t].dres = "true"
        /\ tasks[t].startStatus = "PENDING"
        /\ tasks[t].posts = 1
        /\ rows[tasks[t].id].status = "DELIVERED"
        /\ rows[tasks[t].id].sent_at # <<>>
        /\ rows[tasks[t].id].delivered_at # <<>>
        /\ rows[tasks[t].id].sent_at[1] < rows[tasks[t].id].delivered_at[1]

\* C21: while a call of send_notification has its message with the Avisa
\* API, the stored status of the notification is not PENDING and sent_at is
\* set; and a call whose write of SENT is refused ends without having
\* called the Avisa API and without a write.
C21_SentBeforeGateway ==
    /\ [](\A t \in TaskIds :
            tasks[t].pc = "gateway"
                => /\ rows[tasks[t].id].status # "PENDING"
                   /\ rows[tasks[t].id].sent_at # <<>>)
    /\ [][\A t \in TaskIds :
            (tasks[t].pc = "mark_sent" /\ tasks'[t].pc \notin {"mark_sent", "gateway"})
                => /\ tasks'[t].posts = 0
                   /\ tasks'[t].dres = "raise"
                   /\ rows' = rows]_vars

\* a send of a PENDING notification has written SENT and its message is
\* with the Avisa API
C21_Witness ==
    \E t \in TaskIds :
        /\ tasks[t].pc = "gateway"
        /\ tasks[t].startStatus = "PENDING"
        /\ tasks[t].posts = 0
        /\ rows[tasks[t].id].status = "SENT"
        /\ rows[tasks[t].id].sent_at = <<clock>>

\* C22: a call of send_notification whose message the Avisa API refused
\* (error status or connection error) never returns True: it ends with
\* NotificationServiceError, and when the store takes the write of the
\* handler the notification is left FAILED with the error as error_message.
C22_GatewayErrorFails ==
    [][\A t \in TaskIds :
          (/\ tasks[t].pc \in DispatchPcs
           /\ tasks'[t].pc \notin DispatchPcs
           /\ tasks'[t].posts = 1
           /\ tasks'[t].cause \in {"http", "conn"})
              => /\ tasks'[t].dres = "raise"
                 /\ tasks'[t].derr = "NotificationServiceError"
                 /\ tasks'[t].raisedAt = "send_handler"
                        => /\ rows'[tasks[t].id].status = "FAILED"
                           /\ rows'[tasks[t].id].error_message = tasks[t].cause
                           /\ rows'[tasks[t].id].error_message # ""]_vars

\* a send of a PENDING notification that the Avisa API refused has ended:
\* the notification went from SENT to FAILED and the call raised
C22_Witness ==
    \E t \in TaskIds :
        /\ tasks[t].pc \notin DispatchPcs
        /\ tasks[t].startStatus = "PENDING"
        /\ tasks[t].posts = 1
        /\ tasks[t].cause \in {"http", "conn"}
        /\ tasks[t].dres = "raise"
        /\ tasks[t].raisedAt = "send_handler"
        /\ rows[tasks[t].id].status = "FAILED"
        /\ rows[tasks[t].id].sent_at # <<>>
        /\ rows[tasks[t].id].error_message = tasks[t].cause

\* C23: a call of send_notification posts at most one message to the Avisa
\* API, and after a refused message it posts no other: it goes on to the
\* handler.
C23_OneDeliveryAttempt ==
    /\ [](\A t \in TaskIds : tasks[t].posts <= 1)
    /\ [][\A t \in TaskIds :
            (tasks[t].pc = "gateway" /\ tasks'[t] # tasks[t])
                => /\ tasks'[t].posts = 1
                   /\ tasks'[t].pc \in {"mark_delivered", "mark_failed"}]_vars

\* a send whose one message the Avisa API refused has ended
C23_Witness ==
    \E t \in TaskIds :
        /\ tasks[t].pc \notin DispatchPcs
        /\ tasks[t].dres = "raise"
        /\ tasks[t].cause \in {"http", "conn"}
        /\ tasks[t].posts = 1
        /\ rows[tasks[t].id].posts = 1

\* C24: in every state a notification that is SENT or DELIVERED has sent_at,
\* one that is DELIVERED has delivered_at and one that is FAILED has
\* error_message; and every step that writes one of these fields leaves the
\* status that goes with it, so status and field are written together.
C24_StatusWithField ==
    /\ [](\A n \in NotifIds :
            /\ rows[n].status \in {"SENT", "DELIVERED"} => rows[n].sent_at # <<>>
            /\ rows[n].status = "DELIVERED" => rows[n].delivered_at # <<>>
            /\ rows[n].status = "FAILED" => rows[n].error_message # "")
    /\ [][\A n \in NotifIds :
            /\ rows'[n].sent_at # rows[n].sent_at
                  => rows'[n].status = "SENT"
            /\ rows'[n].delivered_at # rows[n].delivered_at
                  => rows'[n].status = "DELIVERED"
            /\ rows'[n].error_message # rows[n].error_message
                  => rows'[n].status = "FAILED"]_vars

\* one notification has been delivered and another has failed after SENT
C24_Witness ==
    \E n \in NotifIds : \E m \in NotifIds :
        /\ rows[n].status = "DELIVERED"
        /\ rows[n].sent_at # <<>> /\ rows[n].delivered_at # <<>>
        /\ rows[m].status = "FAILED"
        /\ rows[m].sent_at # <<>> /\ rows[m].error_message # ""

\* C25: the batch a call of process_pending_notifications reads holds at
\* most 100 notifications, each PENDING with scheduled_for <= now at the
\* moment of the query, and the call sends the notifications of that batch
\* only, so at most 100 however many are due.
C25_BatchDueAndLimited ==
    /\ [][\A t \in TaskIds :
            (tasks[t].pc = "query" /\ tasks'[t].pc = "loop")
                => /\ Len(tasks'[t].selected) <= BatchLimit
                   /\ \A i \in 1..Len(tasks'[t].selected) :
                         IsDue(tasks'[t].selected[i])]_vars
    /\ [](\A t \in TaskIds :
            tasks[t].kind = "sweep"
                => /\ Len(tasks[t].sent) <= BatchLimit
                   /\ Len(tasks[t].sent) <= Len(tasks[t].selected)
                   /\ \A i \in 1..Len(tasks[t].sent) :
                         tasks[t].sent[i] = tasks[t].selected[i])

\* a call has returned after sending 100 notifications while another due
\* one, left out of the batch, is still PENDING
C25_Witness ==
    \E t \in TaskIds :
        /\ tasks[t].pc = "done" /\ tasks[t].out = "return"
        /\ Len(tasks[t].sent) = BatchLimit
        /\ \E n \in DOMAIN rows :
              /\ IsDue(n)
              /\ \A i \in 1..Len(tasks[t].sent) : tasks[t].sent[i] # n

\* C26: a call of process_pending_notifications that has read its batch
\* ends by returning, having called send_notification once on every
\* notification of the batch, in order, however many of these calls raised;
\* it raises only when its query failed, before any send.
C26_BatchNotAborted ==
    \A t \in TaskIds :
        (tasks[t].kind = "sweep" /\ tasks[t].pc = "done")
            => \/ /\ tasks[t].out = "return"
                  /\ tasks[t].sent = tasks[t].selected
                  /\ Len(tasks[t].results) = Len(tasks[t].selected)
               \/ /\ tasks[t].out = "raise"
                  /\ tasks[t].sent = <<>>
                  /\ tasks[t].selected = <<>>

\* a call has returned after sending both notifications of its batch, the
\* send of the first one having raised
C26_Witness ==
    \E t \in TaskIds :
        /\ tasks[t].kind = "sweep" /\ tasks[t].pc = "done"
        /\ tasks[t].out = "return"
        /\ Len(tasks[t].selected) = 2
        /\ tasks[t].sent = tasks[t].selected
        /\ tasks[t].results[1] = "raise"

\* C27: the number a call of process_pending_notifications returns is the
\* number of notifications of its batch whose send_notification returned
\* without raising.
C27_CountsReturns ==
    \A t \in TaskIds :
        (tasks[t].kind = "sweep" /\ tasks[t].pc = "done"
                                 /\ tasks[t].out = "return")
            => tasks[t].processed =
                  Cardinality({i \in 1..Len(tasks[t].results) :
                                  tasks[t].results[i] = "true"})

\* a call has returned 1 after a batch of two, one send having raised
C27_Witness ==
    \E t \in TaskIds :
        /\ tasks[t].kind = "sweep" /\ tasks[t].pc = "done"
        /\ tasks[t].out = "return"
        /\ Len(tasks[t].results) = 2
        /\ \E i \in 1..2 : tasks[t].results[i] = "raise"
        /\ tasks[t].processed = 1

\* C28 as stated: a notification that a send of a call of
\* process_pending_notifications leaves FAILED is counted in the number the
\* call returns.
C28_FailedIsCounted ==
    [][\A t \in TaskIds :
          (/\ tasks[t].kind = "sweep"
           /\ tasks[t].pc = "mark_failed"
           /\ tasks'[t].pc # "mark_failed"
           /\ rows'[tasks[t].id].status = "FAILED")
              => tasks'[t].processed = tasks[t].processed + 1]_vars

\* C28 amended: a send that goes through the handler writing FAILED raises,
\* and a send that raises leaves the count of
\* process_pending_notifications as it was; the count grows by one exactly
\* with a send that returned True, which has written DELIVERED.
C28_FailedIsNotCounted ==
    [][\A t \in TaskIds :
          (/\ tasks[t].kind = "sweep"
           /\ tasks[t].pc \in DispatchPcs
           /\ tasks'[t].pc \notin DispatchPcs)
              => /\ tasks[t].pc = "mark_failed" => tasks'[t].dres = "raise"
                 /\ tasks'[t].dres = "raise"
                        => tasks'[t].processed = tasks[t].processed
                 /\ tasks'[t].dres = "true"
                        => /\ tasks'[t].processed = tasks[t].processed + 1
                           /\ rows'[tasks[t].id].status = "DELIVERED"]_vars

\* a call has returned 0 after its one send left the notification FAILED
C28_Witness ==
    \E t \in TaskIds :
        /\ tasks[t].kind = "sweep" /\ tasks[t].pc = "done"
        /\ tasks[t].out = "return"
        /\ tasks[t].results = <<"raise">>
        /\ tasks[t].raisedAt = "send_handler"
        /\ tasks[t].startStatus = "PENDING"
        /\ rows[tasks[t].id].status = "FAILED"
        /\ tasks[t].processed = 0

\* C29: a call of process_pending_notifications that reads its batch after
\* another call has returned does not select any notification the other
\* call sent: each of these has left PENDING.
C29_SecondSweepSelectsNoneAgain ==
    [][\A t \in TaskIds : \A u \in TaskIds :
          (/\ t # u
           /\ tasks[t].kind = "sweep" /\ tasks[t].pc = "done"
           /\ tasks[u].pc = "query" /\ tasks'[u].pc = "loop")
              => \A i \in 1..Len(tasks[t].sent) :
                    /\ rows[tasks[t].sent[i]].status # "PENDING"
                    /\ \A j \in 1..Len(tasks'[u].selected) :
                          tasks'[u].selected[j] # tasks[t].sent[i]]_vars

\* C30: the batch a call of process_pending_notifications reads leaves out
\* every notification that is not PENDING or not yet due, and no step of
\* the call changes a notification outside its batch: status, sent_at,
\* delivered_at, error_message and the messages posted for it stay as they
\* are.
C30_UnselectedUntouched ==
    [][\A t \in TaskIds : \A n \in NotifIds :
          /\ (/\ tasks'[t].kind = "sweep"
              /\ tasks'[t] # tasks[t]
              /\ \A i \in 1..Len(tasks'[t].selected) :
                    tasks'[t].selected[i] # n)
                 => (rows'[n] = rows[n] /\ tasks'[t].id # n)
          /\ (/\ tasks[t].pc = "query" /\ tasks'[t].pc = "loop"
              /\ ~IsDue(n))
                 => (\A i \in 1..Len(tasks'[t].selected) :
                        tasks'[t].selected[i] # n)]_vars

\* a call has returned after sending the one notification of its batch,
\* and a notification scheduled for later is as it was created
C30_Witness ==
    \E t \in TaskIds : \E n \in NotifIds :
        /\ tasks[t].kind = "sweep" /\ tasks[t].pc = "done"
        /\ Len(tasks[t].sent) = 1
        /\ tasks[t].sent[1] # n
        /\ rows[tasks[t].sent[1]].status # "PENDING"
        /\ rows[n].scheduled # <<>>
        /\ rows[n].scheduled[1] > clock
        /\ rows[n] = NewRow(rows[n].scheduled, rows[n].addr)

(***************************************************************************)
(* Claims about the normalizers                                            *)
(***************************************************************************)
\* the places of the upstream record a field of the canonical record is
\* read from, in the order they are tried
FieldSources(h) ==
    IF h = "camara"
    THEN [external_id |-> {<<"id">>},
          name |-> {<<"nomeCivil">>},
          parliamentary_name |-> {<<"ultimoStatus", "nome">>, <<"nome">>},
          cpf |-> {<<"cpf">>},
          party |-> {<<"ultimoStatus", "siglaPartido">>},
          state |-> {<<"ultimoStatus", "siglaUf">>},
          email |-> {<<"ultimoStatus", "email">>},
          photo_url |-> {<<"ultimoStatus", "urlFoto">>},
          biography |-> {<<"escolaridade">>},
          website |-> {<<"urlWebsite">>}]
    ELSE [external_id |-> {<<"IdentificacaoParlamentar", "CodigoParlamentar">>},
          name |-> {<<"IdentificacaoParlamentar", "NomeCompletoParlamentar">>},
          parliamentary_name |-> {<<"IdentificacaoParlamentar", "NomeParlamentar">>},
          cpf |-> {},
          party |-> {<<"IdentificacaoParlamentar", "SiglaPartidoParlamentar">>},
          state |-> {<<"IdentificacaoParlamentar", "UfParlamentar">>},
          email |-> {<<"IdentificacaoParlamentar", "EmailParlamentar">>},
          photo_url |-> {<<"IdentificacaoParlamentar", "UrlFotoParlamentar">>},
          biography |-> {},
          website |-> {<<"IdentificacaoParlamentar", "UrlPaginaParlamentar">>}]

CanonicalFields == DOMAIN FieldSources("camara")

\* the place is absent from the record: the key, or the object holding it
AbsentAt(data, path) ==
    \/ path[1] \notin DOMAIN data.v
    \/ /\ Len(path) = 2
       /\ data.v[path[1]].t = "dict"
       /\ path[2] \notin DOMAIN data.v[path[1]].v

FieldOf(out, f) == IF f = "website" THEN out.social_media.website ELSE out[f]

NullOrEmpty(x) == x = PyNone \/ x = PyStr("")

\* C31: for every upstream record in which some of the fields or the nested
\* object are absent, the normalizer does not raise and every field of the
\* canonical record whose places are all absent is null or empty.
C31_MissingDefaulted ==
    (norm.st = "done" /\ ~NestedIsNull(norm.host, norm.data)) =>
        /\ norm.raised = ""
        /\ \A f \in CanonicalFields :
              (\A p \in FieldSources(norm.host)[f] : AbsentAt(norm.data, p))
                  => NullOrEmpty(FieldOf(norm.out, f))

\* the part of C31 that holds: no raise, and every field but external_id is
\* defaulted
C31_OthersDefaulted ==
    (norm.st = "done" /\ ~NestedIsNull(norm.host, norm.data)) =>
        /\ norm.raised = ""
        /\ \A f \in CanonicalFields \ {"external_id"} :
              (\A p \in FieldSources(norm.host)[f] : AbsentAt(norm.data, p))
                  => NullOrEmpty(FieldOf(norm.out, f))

(***************************************************************************)
(* Further claims about the notification service                           *)
(***************************************************************************)
\* C32: whatever the interleaving of the calls of
\* process_pending_notifications and create_notification, at most one message
\* is handed to the Avisa API for a notification.
C32_SentOnce == \A n \in NotifIds : rows[n].posts <= 1

\* the part of C32 that holds: one call of send_notification hands over at
\* most one message
C32_OncePerCall == \A t \in TaskIds : tasks[t].posts <= 1

\* the Avisa API accepted the message of the current send_notification of t
GatewaySucceeded(t) ==
    /\ tasks[t].posts = 1
    /\ tasks[t].cause \notin {"http", "conn"}

\* C33: a send_notification whose message the Avisa API accepted does not
\* write the status FAILED, also when its write of DELIVERED is refused.
C33_AcceptedNeverFailed ==
    [][\A t \in TaskIds :
          (/\ tasks[t].pc = "mark_failed"
           /\ GatewaySucceeded(t)
           /\ tasks'[t] # tasks[t])
              => ~(/\ tasks'[t].raisedAt = "send_handler"
                   /\ rows'[tasks[t].id].status = "FAILED")]_vars

\* the part of C33 that holds: with the write of DELIVERED accepted, the
\* call returns and FAILED is not written
C33_DeliveredNotFailed ==
    [][\A t \in TaskIds :
          (tasks[t].pc = "mark_delivered" /\ tasks'[t].dres = "true"
           /\ tasks'[t] # tasks[t])
              => rows'[tasks[t].id].status = "DELIVERED"]_vars

\* C34: when a send_notification that wrote SENT ends, by returning or by
\* raising, the notification is DELIVERED or FAILED, whatever the Avisa API
\* answered and whichever writes the store refused.
C34_ConcludedIsTerminal ==
    [][\A t \in TaskIds :
          (/\ tasks[t].pc \in {"gateway", "mark_delivered", "mark_failed"}
           /\ tasks'[t].pc \in {"loop", "done"})
              => rows'[tasks[t].id].status \in {"DELIVERED", "FAILED"}]_vars

\* the part of C34 that holds: it does when the last write is accepted
C34_TerminalWhenWritten ==
    [][\A t \in TaskIds :
          (/\ tasks[t].pc \in {"gateway", "mark_delivered", "mark_failed"}
           /\ tasks'[t].pc \in {"loop", "done"}
           /\ tasks'[t].raisedAt # "store_handler")
              => rows'[tasks[t].id].status \in {"DELIVERED", "FAILED"}]_vars

\* C35: a notification created without scheduled_for is not PENDING once
\* create_notification has returned or raised, or else a later call of
\* process_pending_notifications can select it.
C35_SendNowLeavesPending ==
    \A t \in TaskIds :
        (/\ tasks[t].kind = "create"
         /\ tasks[t].pc = "done"
         /\ tasks[t].scheduled = <<>>
         /\ tasks[t].id # 0)
            => \/ rows[tasks[t].id].status # "PENDING"
               \/ rows[tasks[t].id].scheduled # <<>>

\* the part of C35 that holds: it has left PENDING when SENT was written
C35_LeavesPendingWhenSent ==
    \A t \in TaskIds :
        (/\ tasks[t].kind = "create"
         /\ tasks[t].pc = "done"
         /\ tasks[t].scheduled = <<>>
         /\ tasks[t].id # 0
         /\ tasks[t].whatsapp
         /\ ~(tasks[t].cause = "store" /\ tasks[t].posts = 0))
            => rows[tasks[t].id].status # "PENDING"

\* C36: when create_notification raises NotificationServiceError, it has
\* stored no notification and no message has been sent.
C36_RaiseLeavesNothing ==
    \A t \in TaskIds :
        (/\ tasks[t].kind = "create"
         /\ tasks[t].pc = "done"
         /\ tasks[t].err = "NotificationServiceError")
            => /\ tasks[t].id = 0
               /\ tasks[t].posts = 0

\* the part of C36 that holds: nothing is stored when the raise comes from
\* the select of the user or from the insert
C36_EarlyRaiseLeavesNothing ==
    \A t \in TaskIds :
        (/\ tasks[t].kind = "create"
         /\ tasks[t].pc = "done"
         /\ tasks[t].err = "NotificationServiceError"
         /\ tasks[t].sent = <<>>)
            => /\ tasks[t].id = 0
               /\ tasks[t].posts = 0

\* a call of send_notification on notification n is in progress
Dispatching(n) ==
    \E t \in TaskIds : tasks[t].pc \in DispatchPcs /\ tasks[t].id = n

\* C37: with process_pending_notifications called again and again, every
\* notification that is PENDING and due is eventually passed to
\* send_notification, also with more than BatchLimit notifications due and
\* with notifications whose sending fails every time.
C37_DueIsDispatched ==
    \A n \in BatchIds : IsDue(n) ~> Dispatching(n)

\* the part of C37 that holds: the notifications among the first BatchLimit
\* rows are passed to send_notification
C37_FirstBatchIsDispatched ==
    \A n \in 1..BatchLimit : IsDue(n) ~> Dispatching(n)

(***************************************************************************)
(* A further claim about the cache                                         *)
(***************************************************************************)
\* call c read, with Redis answering, an unexpired entry for its key, after
\* call d had returned and stored its result under the same key
SecondCall(c, d) ==
    /\ c # d
    /\ callers[d].st = "done"
    /\ callers[d].setOk
    /\ callers[c].key = callers[d].key
    /\ callers[c].found
    /\ callers[c].foundOrig = callers[d].result
    /\ callers[c].foundAge = now - callers[d].setAt

\* C38: a second call with the same key, made while the entry the first
\* call stored is unexpired and Redis answers, does not invoke the wrapped
\* method, whatever value the first call returned (None and empty results
\* included).
C38_SecondCallNotInvoked ==
    \A c, d \in CallerIds :
        SecondCall(c, d) => callers[c].invoked = 0 /\ callers[c].st # "func"

\* the part of C38 that holds: it does not for every value but None
C38_SecondCallNotInvokedUnlessNone ==
    \A c, d \in CallerIds :
        (SecondCall(c, d) /\ callers[d].result # JNull)
            => callers[c].invoked = 0 /\ callers[c].st # "func"

\* the second call after a first call that returned an empty list
C38_EmptyResultHit ==
    \E c, d \in CallerIds :
        /\ SecondCall(c, d)
        /\ callers[d].result = JArr(<<>>)
        /\ callers[c].st = "done"

(***************************************************************************)
(* A further claim about the clients                                       *)
(***************************************************************************)
\* C39: every attempt of a call issues exactly one GET, so the call issues
\* as many GETs as it made attempts, at most DefaultRetry, and a call that
\* succeeds on its first attempt has issued exactly one; for every client.
C39_OneRequestPerAttempt ==
    /\ call.reqs = Len(call.hist)
    /\ call.reqs <= DefaultRetry
    /\ (call.st = "done" /\ call.res = "ok" /\ Len(call.hist) = 1) =>
           call.reqs = 1

\* the part of C39 that holds: it does for CamaraAPI and TransparenciaAPI
C39_OneRequestPerAttemptElsewhere ==
    (call.st # "idle" /\ CallHost # "senado") =>
        /\ call.reqs = Len(call.hist)
        /\ call.reqs <= DefaultRetry

=============================================================================
